---- MODULE Spec2Model ----
(***************************************************************************)
(* Model of reset_password.py: the PSForever password reset tool.          *)
(*                                                                         *)
(* One run of the script is one behaviour.  Strings are sequences of       *)
(* one-character strings; bytes values are records wrapping such a         *)
(* sequence.  The database session is modelled by the committed rows and   *)
(* the rows as seen inside the connection's open transaction.  Exceptions  *)
(* (KeyboardInterrupt, Exception, SystemExit) unwind through the try       *)
(* blocks of connect_database, update_password, main and the __main__      *)
(* guard exactly as the handlers in the source are nested.                 *)
(***************************************************************************)
EXTENDS Integers, Sequences, FiniteSets, TLC

\* ------------------------------------------------------------------------
\* Bounds of the model (not program constants)
\* ------------------------------------------------------------------------
MaxSalt == 2
MaxPriorLogLines == 1

\* ------------------------------------------------------------------------
\* Program constants
\* ------------------------------------------------------------------------
max_attempts == 3
min_length == 6
confirm_max_attempts == 3
bcrypt_rounds == 12

\* ------------------------------------------------------------------------
\* Strings: str.lower(), str.strip(), encode / decode
\* ------------------------------------------------------------------------
UpperToLower ==
  [A |-> "a", B |-> "b", F |-> "f", N |-> "n", O |-> "o", S |-> "s", Y |-> "y"]

LowerChar(c) == IF c \in DOMAIN UpperToLower THEN UpperToLower[c] ELSE c

Lower(s) == [i \in 1..Len(s) |-> LowerChar(s[i])]

RECURSIVE LStrip(_)
LStrip(s) == IF s # <<>> /\ Head(s) = " " THEN LStrip(Tail(s)) ELSE s

RECURSIVE RStrip(_)
RStrip(s) ==
  IF s # <<>> /\ s[Len(s)] = " " THEN RStrip(SubSeq(s, 1, Len(s) - 1)) ELSE s

Strip(s) == RStrip(LStrip(s))

Encode(s) == [bytes |-> s]

Decode(b) == b.bytes

\* ------------------------------------------------------------------------
\* Hash Deriver: hashlib.sha256(...).hexdigest(), bcrypt.gensalt, bcrypt.hashpw
\* A digest is collision free: the hex digest of b is the text "#" followed
\* by b, which no password or username equals.
\* ------------------------------------------------------------------------
Sha256Hex(b) == <<"#">> \o b.bytes

GenSalt(rounds, prefix, r) == [prefix |-> prefix, rounds |-> rounds, salt |-> r]

\* The "$2a$12$..." text of a bcrypt hash is the record of its parts.
HashPw(b, salt) ==
  Encode([prefix |-> salt.prefix, rounds |-> salt.rounds,
          salt |-> salt.salt, hashed |-> b.bytes])

CheckPw(b, hash) == Decode(hash).hashed = b.bytes

\* The launcher hash with the username folded to lower case first.
generate_launcher_hash_lowered(username, password, r) ==
  LET salted == Encode(Lower(username) \o password)
      sha256_hash == Sha256Hex(salted)
  IN  HashPw(Encode(sha256_hash), GenSalt(bcrypt_rounds, "2a", r))

generate_launcher_hash(username, password, r) ==
  LET salted == Encode(username \o password)
      sha256_hash == Sha256Hex(salted)
  IN  HashPw(Encode(sha256_hash), GenSalt(bcrypt_rounds, "2a", r))

generate_testclient_hash(password, r) ==
  HashPw(Encode(password), GenSalt(bcrypt_rounds, "2a", r))

NoHash == Encode([prefix |-> "", rounds |-> 0, salt |-> 0, hashed |-> <<>>])

\* ------------------------------------------------------------------------
\* The account table before the run
\* ------------------------------------------------------------------------
psforever == <<"p", "s", "f", "o", "r", "e", "v", "e", "r">>

OldPassword == <<"o", "l", "d", "p", "w", "1">>

AccountIds == {1, 2}

StoredUsername == [i \in AccountIds |-> IF i = 1 THEN <<"F", "o", "o">>
                                                 ELSE <<"b", "o", "b">>]

StoredInactive == [i \in AccountIds |-> i = 2]

InitialAccounts ==
  [i \in AccountIds |->
     [id |-> i,
      username |-> StoredUsername[i],
      inactive |-> StoredInactive[i],
      password |-> Decode(generate_launcher_hash(StoredUsername[i], OldPassword, 0)),
      passhash |-> Decode(generate_testclient_hash(OldPassword, 0))]]

\* ------------------------------------------------------------------------
\* The PostgreSQL server the tool talks to, and what the operator can type
\* ------------------------------------------------------------------------
ServerConfigs ==
  { [db |-> psforever, pw |-> psforever],
    [db |-> <<"p", "s">>, pw |-> <<"p", "g">>] }

DatabaseEntries == { <<>>, <<" ", "p", "s", " ">>, <<"n", "o">> }

DbPasswordEntries == { <<"p", "g">>, <<"b", "a", "d">> }

UsernameEntries ==
  { <<>>, <<" ">>, <<"f", "o", "o">>, <<" ", "F", "O", "O">>, <<"B", "o", "b", " ">>,
    <<"z">> }

YesNoEntries ==
  { <<>>, <<" ">>, <<" ", "Y", "e", "s">>, <<"n">>, <<"N", "o", " ">>, <<"o">> }

PasswordEntries ==
  { <<"s", "e", "c", "r", "e">>,
    <<"s", "e", "c", "r", "e", "t">>,
    <<"S", "e", "c", "r", "e", "t">> }

Salts == 1..MaxSalt

\* Lower-cased text of a psycopg2.OperationalError, as the set of the phrases
\* the classification looks for that occur in it.
MissingDatabaseMessages == { {"database", "does not exist"} }

AuthenticationMessages == { {"password", "authentication failed"}, {"password"} }

RefusedMessages == { {"connection refused"}, {"could not connect", "connection refused"} }

OtherMessages == { {}, {"database"} }

PriorRecord == [account_id |-> 2, username |-> StoredUsername[2]]

PriorLogs == { [i \in 1..n |-> PriorRecord] : n \in 0..MaxPriorLogLines }

\* ------------------------------------------------------------------------
\* State
\* ------------------------------------------------------------------------
VARIABLES
  pc,               \* position of the script
  exc,              \* exception in flight ("none" when there is none)
  exit_code,        \* exit status of the process (0 until sys.exit says otherwise)
  server,           \* database name and password the server accepts
  conn,             \* "none", "open" or "closed"
  attempt,          \* connect_database: attempt
  database,         \* connect_database: database
  dbpassword,       \* connect_database: password
  error_msg,        \* connect_database: error_msg of the last OperationalError
  committed,        \* account table as committed in the database
  working,          \* account table as seen inside the session's transaction
  audit_file,       \* lines of password_reset.log
  username_search,  \* main: username_search
  account_id,       \* main: account_id (0 before the lookup succeeds)
  exact_username,   \* main: exact_username
  is_inactive,      \* main: is_inactive
  password,         \* main: password (the candidate)
  confirm_attempt,  \* confirm_password: attempt
  confirm,          \* main: confirm (dry-run response, stripped and lowered)
  launcher_hash,    \* main: launcher_hash
  testclient_hash,  \* main: testclient_hash
  update_result,    \* what update_password returned: "none", "True", "False"
  hist              \* history of the run, read only by the properties

connVars == <<server, conn, attempt, database, dbpassword, error_msg>>
dbVars == <<committed, working>>
acctVars == <<username_search, account_id, exact_username, is_inactive>>
pwVars == <<password, confirm_attempt, confirm>>
hashVars == <<launcher_hash, testclient_hash, update_result>>

vars == <<pc, exc, exit_code, connVars, dbVars, audit_file, acctVars, pwVars,
          hashVars, hist>>

Init ==
  /\ pc = "connect"
  /\ exc = "none"
  /\ exit_code = 0
  /\ server \in ServerConfigs
  /\ conn = "none"
  /\ attempt = 0
  /\ database = psforever
  /\ dbpassword = psforever
  /\ error_msg = {}
  /\ committed = InitialAccounts
  /\ working = InitialAccounts
  /\ audit_file \in PriorLogs
  /\ username_search = <<>>
  /\ account_id = 0
  /\ exact_username = <<>>
  /\ is_inactive = FALSE
  /\ password = <<>>
  /\ confirm_attempt = 0
  /\ confirm = <<>>
  /\ launcher_hash = NoHash
  /\ testclient_hash = NoHash
  /\ update_result = "none"
  /\ hist = [audit0 |-> audit_file,
             connect_calls |-> 0,
             prompts |-> 0,
             refused |-> FALSE,
             ending |-> "none",
             update_calls |-> 0,
             update_error |-> FALSE,
             commits |-> 0,
             audit_before_commit |-> FALSE,
             dry_asked |-> FALSE,
             dry_typed |-> <<>>,
             dry_declined |-> FALSE,
             interrupted |-> FALSE,
             raised_at |-> "none",
             entry_untried |-> FALSE,
             typed_password |-> <<>>,
             confirm_entries |-> 0,
             confirm_matched |-> FALSE,
             discarded |-> FALSE]

\* ------------------------------------------------------------------------
\* Exception handlers, innermost first
\* ------------------------------------------------------------------------
\* connect_database, "except Exception" of the try around psycopg2.connect:
\* print and sys.exit(1); KeyboardInterrupt and SystemExit pass through.
ConnectTryHandlers(e) == IF e = "Exception" THEN "SystemExit1" ELSE e

\* A bare "except:" around the call of connect_database would also take the
\* operator's interrupt.
MainConnectHandlersBare(e) ==
  IF e \in {"Exception", "KeyboardInterrupt"} THEN "SystemExit1" ELSE e

\* main, "except Exception" around the call of connect_database.
MainConnectHandlers(e) == IF e = "Exception" THEN "SystemExit1" ELSE e

\* update_password, "except Exception": TRUE when the handler takes e.
UpdateHandles(e) == e = "Exception"

\* The __main__ guard and the interpreter: the exit status for what leaves main.
MainGuard(e) ==
  CASE e = "none" -> 0
    [] e = "KeyboardInterrupt" -> 0
    [] e = "Exception" -> 1
    [] e = "SystemExit0" -> 0
    [] e = "SystemExit1" -> 1

\* The process ends with e leaving main.
ProcessExit(e) ==
  /\ pc' = "exited"
  /\ exc' = e
  /\ exit_code' = MainGuard(e)

\* What a raised exception counts as, for the run's ending.
EndingOf(e) == IF e = "KeyboardInterrupt" THEN "interrupted" ELSE "unexpected"

Raisable == {"KeyboardInterrupt", "Exception"}

\* ------------------------------------------------------------------------
\* connect_database
\* ------------------------------------------------------------------------
IsMissingDatabase(m) == "database" \in m /\ "does not exist" \in m

IsAuthenticationFailed(m) == "authentication failed" \in m \/ "password" \in m

IsConnectionRefused(m) == "connection refused" \in m \/ "could not connect" \in m

\* The classification without its connection-refused branch.
ClassifyWithoutRefused(m) ==
  IF IsMissingDatabase(m) THEN "missing"
  ELSE IF IsAuthenticationFailed(m) THEN "auth"
  ELSE "other"

Classify(m) ==
  IF IsMissingDatabase(m) THEN "missing"
  ELSE IF IsAuthenticationFailed(m) THEN "auth"
  ELSE IF IsConnectionRefused(m) THEN "refused"
  ELSE "other"

\* The loop test off by one.
LoopContinuesOffByOne(a) == a <= max_attempts

LoopContinues(a) == a < max_attempts

\* The server's answer to well-formed connection parameters when it is
\* reachable: authentication is checked before the database is opened.
ServerErrors(db, pw) ==
  IF pw # server.pw THEN AuthenticationMessages
  ELSE IF db # server.db THEN MissingDatabaseMessages
  ELSE {}

ConnectOk ==
  /\ pc = "connect"
  /\ LoopContinues(attempt)
  /\ ServerErrors(database, dbpassword) = {}
  /\ conn' = "open"
  /\ pc' = "connected"
  /\ hist' = [hist EXCEPT !.connect_calls = @ + 1, !.entry_untried = FALSE]
  /\ UNCHANGED <<exc, exit_code, server, attempt, database, dbpassword, error_msg,
                 dbVars, audit_file, acctVars, pwVars, hashVars>>

ConnectOperationalError ==
  /\ pc = "connect"
  /\ LoopContinues(attempt)
  /\ \E m \in ServerErrors(database, dbpassword) \cup RefusedMessages \cup OtherMessages :
       /\ error_msg' = m
       /\ LET kind == Classify(m) IN
            /\ hist' = [hist EXCEPT !.connect_calls = @ + 1,
                                    !.entry_untried = FALSE,
                                    !.refused = @ \/ m \in RefusedMessages,
                                    !.ending = IF kind = "refused" THEN "refused" ELSE @]
            /\ IF kind = "missing" THEN
                 /\ pc' = "prompt_database"
                 /\ UNCHANGED <<exc, exit_code, attempt>>
               ELSE IF kind = "auth" THEN
                 /\ pc' = "prompt_dbpassword"
                 /\ UNCHANGED <<exc, exit_code, attempt>>
               ELSE IF kind = "refused" THEN
                 /\ ProcessExit(MainConnectHandlers("SystemExit1"))
                 /\ UNCHANGED attempt
               ELSE
                 /\ attempt' = attempt + 1
                 /\ pc' = "connect"
                 /\ UNCHANGED <<exc, exit_code>>
  /\ UNCHANGED <<server, conn, database, dbpassword, dbVars, audit_file, acctVars,
                 pwVars, hashVars>>

\* psycopg2.connect raises something that is no OperationalError, or the
\* operator interrupts the attempt.
ConnectRaises ==
  /\ pc = "connect"
  /\ LoopContinues(attempt)
  /\ \E e \in Raisable :
       /\ ProcessExit(MainConnectHandlers(ConnectTryHandlers(e)))
       /\ hist' = [hist EXCEPT !.connect_calls = @ + 1,
                               !.entry_untried = FALSE,
                               !.ending = EndingOf(e),
                               !.interrupted = @ \/ e = "KeyboardInterrupt",
                               !.raised_at = pc]
  /\ UNCHANGED <<connVars, dbVars, audit_file, acctVars, pwVars, hashVars>>

PromptDatabase ==
  /\ pc = "prompt_database"
  /\ \E typed \in DatabaseEntries :
       database' = IF Strip(typed) = <<>> THEN psforever ELSE Strip(typed)
  /\ attempt' = attempt + 1
  /\ pc' = "connect"
  /\ hist' = [hist EXCEPT !.prompts = @ + 1, !.entry_untried = TRUE]
  /\ UNCHANGED <<exc, exit_code, server, conn, dbpassword, error_msg, dbVars,
                 audit_file, acctVars, pwVars, hashVars>>

PromptDbPassword ==
  /\ pc = "prompt_dbpassword"
  /\ \E typed \in DbPasswordEntries : dbpassword' = typed
  /\ attempt' = attempt + 1
  /\ pc' = "connect"
  /\ hist' = [hist EXCEPT !.prompts = @ + 1, !.entry_untried = TRUE]
  /\ UNCHANGED <<exc, exit_code, server, conn, database, error_msg, dbVars,
                 audit_file, acctVars, pwVars, hashVars>>

\* input() or getpass() in a handler of connect_database raises (EOF), or the
\* operator interrupts the prompt; the print after the connection is made
\* raises or is interrupted.  All of these leave through main's first try.
RaiseBeforeMainTry ==
  /\ pc \in {"prompt_database", "prompt_dbpassword", "connected"}
  /\ \E e \in Raisable :
       /\ ProcessExit(MainConnectHandlers(e))
       /\ hist' = [hist EXCEPT !.ending = EndingOf(e),
                               !.interrupted = @ \/ e = "KeyboardInterrupt",
                               !.raised_at = pc]
  /\ UNCHANGED <<connVars, dbVars, audit_file, acctVars, pwVars, hashVars>>

ConnectExhausted ==
  /\ pc = "connect"
  /\ ~LoopContinues(attempt)
  /\ ProcessExit(MainConnectHandlers("SystemExit1"))
  /\ hist' = [hist EXCEPT !.ending = "exhausted"]
  /\ UNCHANGED <<connVars, dbVars, audit_file, acctVars, pwVars, hashVars>>

ReportConnected ==
  /\ pc = "connected"
  /\ pc' = "find"
  /\ UNCHANGED <<exc, exit_code, connVars, dbVars, audit_file, acctVars, pwVars,
                 hashVars, hist>>

\* ------------------------------------------------------------------------
\* main, Step 1: find_account
\* ------------------------------------------------------------------------
\* The lookup without LOWER() on either side.
MatchingIdsCaseSensitive(rows, term) ==
  { i \in DOMAIN rows : rows[i].username = term }

\* SELECT id, username, inactive FROM account WHERE LOWER(username) = LOWER(term)
MatchingIds(rows, term) ==
  { i \in DOMAIN rows : Lower(rows[i].username) = Lower(term) }

PromptUsername ==
  /\ pc = "find"
  /\ \E typed \in UsernameEntries :
       /\ username_search' = Strip(typed)
       /\ IF username_search' = <<>> THEN
            /\ pc' = "find"
            /\ UNCHANGED <<account_id, exact_username, is_inactive>>
          ELSE IF MatchingIds(working, username_search') = {} THEN
            /\ pc' = "retry"
            /\ UNCHANGED <<account_id, exact_username, is_inactive>>
          ELSE
            \E i \in MatchingIds(working, username_search') :
              /\ account_id' = working[i].id
              /\ exact_username' = working[i].username
              /\ is_inactive' = working[i].inactive
              /\ pc' = "new_password"
  /\ UNCHANGED <<exc, exit_code, connVars, dbVars, audit_file, pwVars, hashVars, hist>>

RetryDeclines(retry) == retry # <<>> /\ retry[1] = "n"

PromptRetry ==
  /\ pc = "retry"
  /\ \E typed \in YesNoEntries :
       IF RetryDeclines(Lower(Strip(typed))) THEN
         /\ pc' = "finally"
         /\ exc' = "SystemExit0"
         /\ hist' = [hist EXCEPT !.ending = "declined"]
       ELSE
         /\ pc' = "find"
         /\ UNCHANGED <<exc, hist>>
  /\ UNCHANGED <<exit_code, connVars, dbVars, audit_file, acctVars, pwVars, hashVars>>

\* ------------------------------------------------------------------------
\* main, Steps 2 and 3: get_password_input, confirm_password
\* ------------------------------------------------------------------------
\* The length test off by one.
TooShortOffByOne(p) == Len(p) < min_length - 1

TooShort(p) == Len(p) < min_length

GetPasswordInput ==
  /\ pc = "new_password"
  /\ \E typed \in PasswordEntries :
       IF TooShort(typed) THEN
         /\ pc' = "new_password"
         /\ hist' = [hist EXCEPT !.typed_password = typed]
         /\ UNCHANGED <<password, confirm_attempt>>
       ELSE
         /\ password' = typed
         /\ confirm_attempt' = 0
         /\ pc' = "confirm_password"
         /\ hist' = [hist EXCEPT !.typed_password = typed, !.confirm_entries = 0,
                                 !.confirm_matched = FALSE]
  /\ UNCHANGED <<exc, exit_code, connVars, dbVars, audit_file, acctVars, confirm,
                 hashVars>>

\* The confirmation loop running one time too many.
MoreConfirmAttemptsOffByOne(a) == a + 1 <= confirm_max_attempts

\* for attempt in range(max_attempts): another pass follows pass a.
MoreConfirmAttempts(a) == a + 1 < confirm_max_attempts

ConfirmPassword ==
  /\ pc = "confirm_password"
  /\ \E typed \in PasswordEntries :
       IF typed = password THEN
         /\ pc' = "dry_run"
         /\ hist' = [hist EXCEPT !.confirm_entries = @ + 1, !.confirm_matched = TRUE]
         /\ UNCHANGED confirm_attempt
       ELSE IF MoreConfirmAttempts(confirm_attempt) THEN
         /\ confirm_attempt' = confirm_attempt + 1
         /\ pc' = "confirm_password"
         /\ hist' = [hist EXCEPT !.confirm_entries = @ + 1]
       ELSE
         /\ confirm_attempt' = confirm_attempt + 1
         /\ pc' = "new_password"
         /\ hist' = [hist EXCEPT !.confirm_entries = @ + 1, !.discarded = TRUE]
  /\ UNCHANGED <<exc, exit_code, connVars, dbVars, audit_file, acctVars, password,
                 confirm, hashVars>>

\* ------------------------------------------------------------------------
\* main, Step 4: dry-run confirmation
\* ------------------------------------------------------------------------
\* The dry-run test with the active account's default for every account.
DryRunDeclinesDefaultYes(inactive, c) == c # <<>> /\ c[1] = "n"

DryRunDeclines(inactive, c) ==
  IF inactive THEN c = <<>> \/ c[1] # "y"
  ELSE c # <<>> /\ c[1] = "n"

DryRunConfirm ==
  /\ pc = "dry_run"
  /\ \E typed \in YesNoEntries :
       /\ confirm' = Lower(Strip(typed))
       /\ IF DryRunDeclines(is_inactive, confirm') THEN
            /\ pc' = "finally"
            /\ exc' = "SystemExit0"
            /\ hist' = [hist EXCEPT !.ending = "declined", !.dry_asked = TRUE,
                                    !.dry_typed = typed, !.dry_declined = TRUE]
          ELSE
            /\ pc' = "generate_hashes"
            /\ exc' = exc
            /\ hist' = [hist EXCEPT !.dry_asked = TRUE, !.dry_typed = typed]
  /\ UNCHANGED <<exit_code, connVars, dbVars, audit_file, acctVars, password,
                 confirm_attempt, hashVars>>

\* ------------------------------------------------------------------------
\* main, Step 5: generate hashes
\* ------------------------------------------------------------------------
\* The username main hands to generate_launcher_hash, with the mistake of
\* handing it the search term instead.
LauncherUsernameTyped(search, exact) == search

LauncherUsername(search, exact) == exact

GenerateHashes ==
  /\ pc = "generate_hashes"
  /\ \E r1 \in Salts, r2 \in Salts :
       /\ launcher_hash' = generate_launcher_hash(
            LauncherUsername(username_search, exact_username), password, r1)
       /\ testclient_hash' = generate_testclient_hash(password, r2)
  /\ pc' = "update_execute"
  /\ UNCHANGED <<exc, exit_code, connVars, dbVars, audit_file, acctVars, pwVars,
                 update_result, hist>>

\* ------------------------------------------------------------------------
\* main, Step 6: update_password
\* ------------------------------------------------------------------------
\* An UPDATE that sets the launcher hash only.
UpdateRowsPasswordOnly(rows, id, pw, ph) ==
  [i \in DOMAIN rows |->
     IF rows[i].id = id THEN [rows[i] EXCEPT !.password = pw] ELSE rows[i]]

\* An UPDATE that has lost its WHERE clause.
UpdateRowsEveryRow(rows, id, pw, ph) ==
  [i \in DOMAIN rows |-> [rows[i] EXCEPT !.password = pw, !.passhash = ph]]

\* UPDATE account SET password = pw, passhash = ph WHERE id = id
UpdateRows(rows, id, pw, ph) ==
  [i \in DOMAIN rows |->
     IF rows[i].id = id THEN [rows[i] EXCEPT !.password = pw, !.passhash = ph]
     ELSE rows[i]]

UpdateExecute ==
  /\ pc = "update_execute"
  /\ working' = UpdateRows(working, account_id, Decode(launcher_hash),
                           Decode(testclient_hash))
  /\ pc' = "update_commit"
  /\ hist' = [hist EXCEPT !.update_calls = @ + 1]
  /\ UNCHANGED <<exc, exit_code, connVars, committed, audit_file, acctVars, pwVars,
                 hashVars>>

UpdateCommit ==
  /\ pc = "update_commit"
  /\ committed' = working
  /\ update_result' = "True"
  /\ pc' = "report_success"
  /\ hist' = [hist EXCEPT !.commits = @ + 1]
  /\ UNCHANGED <<exc, exit_code, connVars, working, audit_file, acctVars, pwVars,
                 launcher_hash, testclient_hash>>

\* cur.execute or conn.commit raises, or the operator interrupts them.
RaiseInUpdate ==
  /\ pc \in {"update_execute", "update_commit"}
  /\ \E e \in Raisable :
       IF UpdateHandles(e) THEN
         /\ pc' = "update_rollback"
         /\ exc' = exc
         /\ hist' = [hist EXCEPT !.update_error = TRUE, !.raised_at = pc,
                                 !.update_calls = IF pc = "update_execute" THEN @ + 1 ELSE @]
       ELSE
         /\ pc' = "finally"
         /\ exc' = e
         /\ hist' = [hist EXCEPT !.ending = EndingOf(e), !.interrupted = TRUE,
                                 !.raised_at = pc,
                                 !.update_calls = IF pc = "update_execute" THEN @ + 1 ELSE @]
  /\ UNCHANGED <<exit_code, connVars, dbVars, audit_file, acctVars, pwVars, hashVars>>

\* The handler of update_password: conn.rollback(), return False; main then
\* reports the failure and calls sys.exit(1).
UpdateRollback ==
  /\ pc = "update_rollback"
  /\ working' = committed
  /\ update_result' = "False"
  /\ pc' = "finally"
  /\ exc' = "SystemExit1"
  /\ hist' = [hist EXCEPT !.ending = "update_failed"]
  /\ UNCHANGED <<exit_code, connVars, committed, audit_file, acctVars, pwVars,
                 launcher_hash, testclient_hash>>

ReportSuccess ==
  /\ pc = "report_success"
  /\ pc' = "audit"
  /\ UNCHANGED <<exc, exit_code, connVars, dbVars, audit_file, acctVars, pwVars,
                 hashVars, hist>>

\* An audit record that names the account by its lower-cased username.
AuditRecordLowered(id, username) == [account_id |-> id, username |-> Lower(username)]

AuditRecord(id, username) == [account_id |-> id, username |-> username]

AuditLog ==
  /\ pc = "audit"
  /\ audit_file' = Append(audit_file, AuditRecord(account_id, exact_username))
  /\ pc' = "finally"
  /\ hist' = [hist EXCEPT !.ending = "success",
                          !.audit_before_commit = @ \/ update_result # "True"]
  /\ UNCHANGED <<exc, exit_code, connVars, dbVars, acctVars, pwVars, hashVars>>

\* ------------------------------------------------------------------------
\* Exceptions inside main's try block, and its finally clause
\* ------------------------------------------------------------------------
\* Statements of the try block that call into the terminal, the database
\* driver or bcrypt (outside update_password's own try).  logging swallows
\* the errors of its handlers, so the audit call raises no Exception.
MainTryPoints ==
  {"find", "retry", "new_password", "confirm_password", "dry_run",
   "generate_hashes", "update_rollback", "report_success", "audit"}

CanRaise(at, e) == at \in MainTryPoints /\ (e = "Exception" => at # "audit")

RaiseInMainTry ==
  /\ \E e \in Raisable :
       /\ CanRaise(pc, e)
       /\ exc' = e
       /\ hist' = [hist EXCEPT !.ending = EndingOf(e),
                               !.interrupted = @ \/ e = "KeyboardInterrupt",
                               !.raised_at = pc]
  /\ pc' = "finally"
  /\ UNCHANGED <<exit_code, connVars, dbVars, audit_file, acctVars, pwVars, hashVars>>

\* finally: conn.close(); the open transaction is discarded, then whatever
\* was in flight leaves main.
CloseConnection ==
  /\ pc = "finally"
  /\ conn' = "closed"
  /\ working' = committed
  /\ ProcessExit(exc)
  /\ UNCHANGED <<server, attempt, database, dbpassword, error_msg, committed,
                 audit_file, acctVars, pwVars, hashVars, hist>>

\* The operator interrupts the finally clause, before conn.close() is
\* called or once it has returned.
InterruptInFinally ==
  /\ pc = "finally"
  /\ \E closed \in BOOLEAN :
       /\ conn' = IF closed THEN "closed" ELSE conn
       /\ working' = IF closed THEN committed ELSE working
  /\ ProcessExit("KeyboardInterrupt")
  /\ hist' = [hist EXCEPT !.ending = "interrupted", !.interrupted = TRUE,
                          !.raised_at = pc]
  /\ UNCHANGED <<server, attempt, database, dbpassword, error_msg, committed,
                 audit_file, acctVars, pwVars, hashVars>>

\* ------------------------------------------------------------------------
\* The run
\* ------------------------------------------------------------------------
Next ==
  \/ ConnectOk
  \/ ConnectOperationalError
  \/ ConnectRaises
  \/ PromptDatabase
  \/ PromptDbPassword
  \/ RaiseBeforeMainTry
  \/ ConnectExhausted
  \/ ReportConnected
  \/ PromptUsername
  \/ PromptRetry
  \/ GetPasswordInput
  \/ ConfirmPassword
  \/ DryRunConfirm
  \/ GenerateHashes
  \/ UpdateExecute
  \/ UpdateCommit
  \/ RaiseInUpdate
  \/ UpdateRollback
  \/ ReportSuccess
  \/ AuditLog
  \/ RaiseInMainTry
  \/ CloseConnection
  \/ InterruptInFinally

Spec == Init /\ [][Next]_vars

\* ------------------------------------------------------------------------
\* The Hash Deriver on its own: both functions applied to chosen inputs
\* ------------------------------------------------------------------------
HashUsernames ==
  { <<"F", "o", "o">>, <<"f", "o", "o">>, <<"F", "O", "O">>,
    <<"b", "o", "b">>, <<"B", "o", "b">>, <<"B", "O", "B">> }

HashPasswords == PasswordEntries \cup { OldPassword, <<"b">> }

HashInit ==
  /\ pc = "hash_input"
  /\ exc = "none"
  /\ exit_code = 0
  /\ server = [db |-> psforever, pw |-> psforever]
  /\ conn = "none"
  /\ attempt = 0
  /\ database = psforever
  /\ dbpassword = psforever
  /\ error_msg = {}
  /\ committed = InitialAccounts
  /\ working = InitialAccounts
  /\ audit_file = <<>>
  /\ username_search = <<>>
  /\ account_id = 0
  /\ exact_username \in HashUsernames
  /\ is_inactive = FALSE
  /\ password \in HashPasswords
  /\ confirm_attempt = 0
  /\ confirm = <<>>
  /\ launcher_hash = NoHash
  /\ testclient_hash = NoHash
  /\ update_result = "none"
  /\ hist = [audit0 |-> audit_file,
             connect_calls |-> 0,
             prompts |-> 0,
             refused |-> FALSE,
             ending |-> "none",
             update_calls |-> 0,
             update_error |-> FALSE,
             commits |-> 0,
             audit_before_commit |-> FALSE,
             dry_asked |-> FALSE,
             dry_typed |-> <<>>,
             dry_declined |-> FALSE,
             interrupted |-> FALSE,
             raised_at |-> "none",
             entry_untried |-> FALSE,
             typed_password |-> <<>>,
             confirm_entries |-> 0,
             confirm_matched |-> FALSE,
             discarded |-> FALSE]

HashLauncher ==
  /\ pc = "hash_input"
  /\ \E r \in Salts :
       launcher_hash' = generate_launcher_hash(exact_username, password, r)
  /\ pc' = "hash_launcher_done"
  /\ UNCHANGED <<exc, exit_code, connVars, dbVars, audit_file, acctVars, pwVars,
                 testclient_hash, update_result, hist>>

HashTestClient ==
  /\ pc = "hash_launcher_done"
  /\ \E r \in Salts : testclient_hash' = generate_testclient_hash(password, r)
  /\ pc' = "hash_done"
  /\ UNCHANGED <<exc, exit_code, connVars, dbVars, audit_file, acctVars, pwVars,
                 launcher_hash, update_result, hist>>

HashNext == HashLauncher \/ HashTestClient

HashSpec == HashInit /\ [][HashNext]_vars

\* ------------------------------------------------------------------------
\* The run against a database that another session writes to as well
\* ------------------------------------------------------------------------
\* Another session deletes an account row and commits.  It cannot while the
\* tool's transaction holds the row lock of an uncommitted UPDATE.
ExternalDelete ==
  /\ conn = "open"
  /\ pc # "exited"
  /\ working = committed
  /\ DOMAIN committed = AccountIds
  /\ \E gone \in AccountIds :
       /\ committed' = [i \in AccountIds \ {gone} |-> committed[i]]
       /\ working' = committed'
  /\ UNCHANGED <<pc, exc, exit_code, connVars, audit_file, acctVars, pwVars,
                 hashVars, hist>>

SharedNext == Next \/ ExternalDelete

SharedSpec == Init /\ [][SharedNext]_vars

TypeOK ==
  /\ pc \in {"connect", "prompt_database", "prompt_dbpassword", "connected", "find",
             "retry", "new_password", "confirm_password", "dry_run",
             "generate_hashes", "update_execute", "update_commit",
             "update_rollback", "report_success", "audit", "finally", "exited",
             "hash_input", "hash_launcher_done", "hash_done"}
  /\ exc \in {"none", "KeyboardInterrupt", "Exception", "SystemExit0", "SystemExit1"}
  /\ exit_code \in {0, 1}
  /\ conn \in {"none", "open", "closed"}
  /\ attempt \in 0..max_attempts
  /\ update_result \in {"none", "True", "False"}

\* ------------------------------------------------------------------------
\* Properties
\* ------------------------------------------------------------------------
Exited == pc = "exited"

Found == account_id \in AccountIds

HashesDerived == launcher_hash # NoHash /\ testclient_hash # NoHash

BothOld(i) ==
  /\ committed[i].password = InitialAccounts[i].password
  /\ committed[i].passhash = InitialAccounts[i].passhash

BothNew(i) ==
  /\ HashesDerived
  /\ committed[i].password = Decode(launcher_hash)
  /\ committed[i].passhash = Decode(testclient_hash)

\* C1: in every reachable state the committed password and passhash of the
\* target account are both the values from before the run or both the newly
\* derived launcher hash and test-client hash; never one new and one stale.
C1_HashFieldsMoveTogether == Found => (BothOld(account_id) \/ BothNew(account_id))

\* C1 witness: the update has committed and both fields hold the new hashes.
C1_Witness ==
  /\ Found
  /\ hist.commits = 1
  /\ BothNew(account_id)
  /\ committed[account_id].password # InitialAccounts[account_id].password
  /\ committed[account_id].passhash # InitialAccounts[account_id].passhash

\* C2: whenever the process terminates with exit code 1, the committed
\* database state is identical to the state before the run.
C2_ExitOneLeavesDatabaseUnmodified ==
  (Exited /\ exit_code = 1) => committed = InitialAccounts

\* C3: for any error raised while executing the UPDATE or while committing
\* (the operator's interrupt set aside), update_password rolls back and
\* returns False, and both hash fields equal their pre-call values.
C3_UpdateErrorReturnsFalse ==
  (Exited /\ hist.update_error /\ ~hist.interrupted) =>
    (update_result = "False" /\ BothOld(account_id))

\* C4: on every path by which the process terminates after a connection was
\* established, the connection has been closed before the process exits.
C4_ConnectionClosedOnExit == (Exited /\ conn # "none") => conn = "closed"

UserEndings == {"success", "declined", "interrupted"}

FatalEndings == {"refused", "exhausted", "update_failed", "unexpected"}

\* C5: the exit code is 0 exactly when the run ends in a successful reset or
\* a user-initiated abort (decline or interrupt, the connection re-prompts
\* included), and 1 exactly when it ends in a fatal failure.
C5_ExitCodes ==
  Exited =>
    /\ (exit_code = 0 <=> hist.ending \in UserEndings)
    /\ (exit_code = 1 <=> hist.ending \in FatalEndings)

\* C5 witness: the operator interrupts a re-prompt of connect_database and the
\* process exits with 0.
C5_Witness ==
  /\ Exited
  /\ exit_code = 0
  /\ hist.ending = "interrupted"
  /\ hist.raised_at \in {"prompt_database", "prompt_dbpassword"}

\* C6: connect_database makes at most 3 connection attempts, counted across
\* all recoverable error kinds together; it returns a connection or, after
\* the third failed attempt, ends the process with exit code 1.
C6_AtMostThreeAttempts ==
  /\ hist.connect_calls <= 3
  /\ (conn # "none" => hist.connect_calls \in 1..3)
  /\ (hist.ending = "exhausted" =>
        /\ Exited /\ exit_code = 1 /\ conn = "none"
        /\ hist.connect_calls = 3)
  /\ (Exited /\ conn = "none" /\ ~hist.interrupted) => exit_code = 1

\* C6 witness: three failed attempts, one of them a missing database, one an
\* authentication failure, end the process with exit code 1.
C6_Witness ==
  /\ Exited
  /\ hist.ending = "exhausted"
  /\ hist.connect_calls = 3
  /\ database # psforever
  /\ dbpassword # psforever

\* C7: whenever a connection attempt fails with a connection-refused error,
\* on any attempt number, the process has exited with code 1 at once: no
\* further attempt and no prompt follows.
C7_RefusedIsFatal ==
  hist.refused =>
    /\ Exited /\ exit_code = 1
    /\ hist.ending = "refused"
    /\ error_msg \in RefusedMessages

\* C7 witness: the connection is refused on a later attempt than the first.
C7_Witness == hist.refused /\ Exited /\ hist.connect_calls > 1 /\ hist.prompts > 0

LastAuditLine == audit_file[Len(audit_file)]

\* C8 (amended): the audit file only grows, by at most one line per run; a
\* line is added only after the update transaction has committed, and it
\* names the account ID and the exact stored username of the updated account;
\* a run whose update did not commit adds none.
C8_AuditOnlyAfterCommit ==
  /\ Len(audit_file) \in {Len(hist.audit0), Len(hist.audit0) + 1}
  /\ SubSeq(audit_file, 1, Len(hist.audit0)) = hist.audit0
  /\ ~hist.audit_before_commit
  /\ (audit_file # hist.audit0 =>
        /\ hist.commits = 1
        /\ BothNew(account_id)
        /\ LastAuditLine.account_id = account_id
        /\ LastAuditLine.username = committed[account_id].username)
  /\ (hist.commits = 0 => audit_file = hist.audit0)

\* C8 (as claimed): the above, and no run that ends in an abort, an update
\* failure or a fatal error adds an audit record.
C8_NoRecordUnlessRunEndsInSuccess ==
  /\ C8_AuditOnlyAfterCommit
  /\ (Exited /\ hist.ending # "success") => audit_file = hist.audit0

\* C8 witness: the record has been appended after a committed update of the
\* account stored as "Foo".
C8_Witness ==
  /\ Len(audit_file) = Len(hist.audit0) + 1
  /\ hist.commits = 1
  /\ LastAuditLine.username = <<"F", "o", "o">>
  /\ username_search # <<"F", "o", "o">>

\* C9: every terminated run in which the update transaction committed has
\* gained exactly one audit line naming the account ID and exact username.
C9_CommitImpliesAuditLine ==
  (Exited /\ hist.commits > 0) =>
    /\ Len(audit_file) = Len(hist.audit0) + 1
    /\ LastAuditLine = [account_id |-> account_id, username |-> exact_username]

BeginsWith(typed, ch) ==
  LET answer == Lower(Strip(typed)) IN answer # <<>> /\ Head(answer) = ch

\* C10: at the dry-run confirmation an inactive account is updated only if
\* the answer (trimmed, lower-cased) begins with 'y', an active one unless it
\* begins with 'n'; whenever the operator declines, update_password is never
\* called and the process exits with code 0.
C10_DryRunDefaults ==
  /\ (hist.update_calls > 0 => (hist.dry_asked /\ ~hist.dry_declined))
  /\ (hist.dry_asked =>
        /\ (is_inactive => (hist.dry_declined <=> ~BeginsWith(hist.dry_typed, "y")))
        /\ (~is_inactive => (hist.dry_declined <=> BeginsWith(hist.dry_typed, "n")))
        /\ (~hist.dry_declined => pc # "dry_run")
        /\ (hist.dry_declined =>
              /\ hist.update_calls = 0
              /\ committed = InitialAccounts
              /\ pc \in {"finally", "exited"}
              /\ (Exited => exit_code = 0)))

\* C10 witness: an empty answer for an inactive account has aborted the run
\* with exit code 0.
C10_Witness ==
  /\ hist.dry_asked /\ hist.dry_declined
  /\ is_inactive
  /\ Strip(hist.dry_typed) = <<>>
  /\ Exited /\ exit_code = 0

LauncherDigest(username, plaintext) == Encode(Sha256Hex(Encode(username \o plaintext)))

SameUpToCase(a, b) == Lower(a) = Lower(b)

\* C11: for every search term that differs from the stored username only in
\* letter case, the launcher hash is derived from the exact stored username
\* returned by the lookup, never from the typed search term.
C11_LauncherHashUsesStoredUsername ==
  (HashesDerived /\ Found) =>
    /\ CheckPw(LauncherDigest(InitialAccounts[account_id].username, password),
               launcher_hash)
    /\ (username_search # InitialAccounts[account_id].username =>
          ~CheckPw(LauncherDigest(username_search, password), launcher_hash))

\* C11 witness: hashes derived after a search term in another letter case.
C11_Witness ==
  /\ HashesDerived
  /\ username_search = <<"F", "O", "O">>
  /\ exact_username = <<"F", "o", "o">>

\* C13: find_account is case-insensitive: a term whose lower-case form equals
\* that of a stored username resolves to that account's ID and returns the
\* stored username in its exact casing with its inactive flag; a term that
\* matches no row returns none.
C13_LookupIgnoresCase ==
  /\ Found =>
       /\ username_search # <<>>
       /\ SameUpToCase(username_search, InitialAccounts[account_id].username)
       /\ \A i \in AccountIds :
            SameUpToCase(username_search, InitialAccounts[i].username) => i = account_id
       /\ exact_username = InitialAccounts[account_id].username
       /\ is_inactive = InitialAccounts[account_id].inactive
  /\ (~Found /\ username_search # <<>>) =>
       /\ \A i \in AccountIds :
            ~SameUpToCase(username_search, InitialAccounts[i].username)
       /\ exact_username = <<>>
  /\ pc = "retry" => (~Found /\ username_search # <<>>)

\* C13 witness: "Bob" typed with a trailing blank has found the inactive
\* account stored as "bob".
C13_Witness ==
  /\ Found
  /\ username_search = <<"B", "o", "b">>
  /\ exact_username = <<"b", "o", "b">>
  /\ is_inactive

\* C14: a run issues at most one update transaction (no retry after a
\* failure) and changes nothing but the password and passhash of the one
\* account the lookup returned.
C14_OnlyTheTargetHashesChange ==
  /\ hist.update_calls <= 1
  /\ hist.commits <= 1
  /\ (hist.update_error => hist.commits = 0)
  /\ DOMAIN committed = AccountIds
  /\ \A i \in AccountIds :
       /\ committed[i].id = InitialAccounts[i].id
       /\ committed[i].username = InitialAccounts[i].username
       /\ committed[i].inactive = InitialAccounts[i].inactive
       /\ (i # account_id => committed[i] = InitialAccounts[i])
  /\ (hist.commits = 0 => committed = InitialAccounts)

\* C14 witness: the run has ended with the target's hashes replaced.
C14_Witness ==
  /\ Exited
  /\ hist.commits = 1
  /\ Found
  /\ committed[account_id] # InitialAccounts[account_id]

\* C15: confirm_password takes at most 3 entries per candidate: it succeeds
\* at the first entry equal to the candidate (entry 1, 2 or 3) and gives up
\* after three mismatches; main then goes back to collecting a password and
\* the next candidate gets 3 entries again.
C15_ThreeConfirmationsPerCandidate ==
  /\ hist.confirm_entries \in 0..3
  /\ pc = "confirm_password" => (hist.confirm_entries < 3 /\ ~hist.confirm_matched)
  /\ hist.confirm_matched => hist.confirm_entries \in 1..3
  /\ pc \in {"dry_run", "generate_hashes", "update_execute"} => hist.confirm_matched
  /\ (pc = "new_password" /\ password # <<>>) =>
       (hist.confirm_entries = 3 /\ ~hist.confirm_matched /\ hist.discarded)
  /\ hist.discarded => password # <<>>

\* C15 witness: after one candidate was given up, the next one has been
\* confirmed at its third entry.
C15_Witness ==
  /\ pc = "dry_run"
  /\ hist.discarded
  /\ hist.confirm_matched
  /\ hist.confirm_entries = 3

\* C16: the plaintext hashed at Persist is the most recently collected
\* candidate, is at least 6 characters long (5 is rejected, 6 accepted) and
\* was matched by a confirmation entry within the 3 entries of that
\* candidate; a candidate that was given up or is too short is never hashed.
C16_OnlyConfirmedCandidateIsHashed ==
  /\ password # <<>> => Len(password) >= 6
  /\ Len(hist.typed_password) \in 1..5 =>
       (pc \in {"new_password", "finally", "exited"} /\ hist.typed_password # password)
  /\ (Len(hist.typed_password) >= 6 /\ pc = "new_password") =>
       (hist.typed_password = password /\ hist.confirm_entries = 3
        /\ ~hist.confirm_matched)
  /\ HashesDerived =>
       /\ CheckPw(Encode(password), testclient_hash)
       /\ CheckPw(LauncherDigest(exact_username, password), launcher_hash)
       /\ password = hist.typed_password
       /\ Len(password) >= 6
       /\ hist.confirm_matched
       /\ hist.confirm_entries \in 1..3
  /\ hist.commits > 0 => (HashesDerived /\ Found
                          /\ committed[account_id].passhash.hashed = password)

\* C16 witness: a 6-character candidate is hashed after an earlier candidate
\* was given up.
C16_Witness ==
  /\ HashesDerived
  /\ hist.discarded
  /\ Len(password) = 6
  /\ hist.commits = 1

\* C17: every value the operator enters at a recovery prompt of
\* connect_database is used by a later connection attempt.
C17_EveryEntryIsTried == Exited => ~hist.entry_untried

\* C12: for all (username, password) pairs the launcher hash verifies against
\* the hex SHA-256 digest of username+password and does not verify against
\* the digest computed with a username that differs in letter case.
C12_LauncherHashVerifies ==
  launcher_hash # NoHash =>
    /\ CheckPw(LauncherDigest(exact_username, password), launcher_hash)
    /\ \A u \in HashUsernames :
         (u # exact_username /\ SameUpToCase(u, exact_username)) =>
           ~CheckPw(LauncherDigest(u, password), launcher_hash)

\* C12 witness: the launcher hash of ("Foo", "secret") has been derived.
C12_Witness ==
  /\ pc = "hash_done"
  /\ exact_username = <<"F", "o", "o">>
  /\ password = <<"s", "e", "c", "r", "e", "t">>
  /\ launcher_hash # NoHash

\* C18: whenever update_password returns True the account row with the given
\* ID exists and its password and passhash hold the supplied hashes; an
\* UPDATE that matched no row is not reported as success.
C18_TrueMeansRowUpdated ==
  [][(update_result # "True" /\ update_result' = "True") =>
       /\ account_id \in DOMAIN committed'
       /\ committed'[account_id].password = Decode(launcher_hash)
       /\ committed'[account_id].passhash = Decode(testclient_hash)]_vars

====
